---- MODULE Spec2Model ----
(***************************************************************************)
(* State machine of the Navigation component                              *)
(* (src/app/(main)/_components/navigation.tsx): the resizable, collapsible *)
(* sidebar and the navbar whose left offset and width follow it.          *)
(*                                                                         *)
(* A CSS length is the record [pct |-> p, px |-> n], read as p% + n px:   *)
(* '240px' is [0, 240], '100%' is [100, 0], 'calc(100% - 240px)' is       *)
(* [100, -240].  An element's inline style is a function from the         *)
(* property names that were set to their lengths; a property that was     *)
(* never set falls back to the element's class names.                     *)
(***************************************************************************)
EXTENDS Integers, FiniteSets, Sequences, TLC

VARIABLES
    isMobile,        \* useMediaQuery('(max-width: 768px)')
    pathname,        \* usePathname()
    isResizingRef,   \* isResizingRef.current
    sidebarRef,      \* TRUE when sidebarRef.current is the mounted <aside>
    navbarRef,       \* TRUE when navbarRef.current is the mounted <div>
    isResetting,     \* useState(false)
    isCollapsed,     \* useState(isMobile)
    sidebarStyle,    \* inline style of the <aside>
    navbarStyle,     \* inline style of the navbar <div>
    timers,          \* number of pending setTimeout(..., 300) callbacks
    moveListeners,   \* closures registered on document for 'mousemove'
    upListeners,     \* closures registered on document for 'mouseup'
    render,          \* identity of the closures made by the current render
    phase,           \* "render", "commit" (refs attached), "live" (effects ran)
    lastOp,          \* the handler that ran last
    lastX            \* clientX of the last mousemove event (0 otherwise)

vars == <<isMobile, pathname, isResizingRef, sidebarRef, navbarRef,
          isResetting, isCollapsed, sidebarStyle, navbarStyle, timers,
          moveListeners, upListeners, render, phase, lastOp, lastX>>

-----------------------------------------------------------------------------
(* Bounds of the model *)

MaxTimers == 3
MaxListeners == 2
NumPaths == 2
ClientXs == {0, 239, 240, 360, 480, 481, 900}

Pathnames == 1..NumPaths
ClosureIds == 0..MaxListeners

-----------------------------------------------------------------------------
(* Program constants *)

MinWidth == 240
MaxWidth == 480
DefaultWidth == 240
ClassWidth == 240

-----------------------------------------------------------------------------
(* CSS lengths *)

Px(n) == [pct |-> 0, px |-> n]
Full == [pct |-> 100, px |-> 0]
Zero == [pct |-> 0, px |-> 0]
CalcFullMinusPx(n) == [pct |-> 100, px |-> 0 - n]

setProperty(style, prop, value) ==
    [p \in (DOMAIN style) \cup {prop} |-> IF p = prop THEN value ELSE style[p]]

NoStyle == [p \in {} |-> Zero]

(* Lengths in effect: the inline style wins over the class names. *)
SidebarWidth ==
    IF "width" \in DOMAIN sidebarStyle THEN sidebarStyle["width"]
    ELSE IF isMobile THEN Zero ELSE Px(ClassWidth)

NavbarLeft ==
    IF "left" \in DOMAIN navbarStyle THEN navbarStyle["left"]
    ELSE IF isMobile THEN Zero ELSE Px(ClassWidth)

NavbarWidth ==
    IF "width" \in DOMAIN navbarStyle THEN navbarStyle["width"]
    ELSE IF isMobile THEN Full ELSE CalcFullMinusPx(ClassWidth)

(* The chevron button and the resize handle are children of the <aside>, *)
(* which clips its content: they can be reached only while it has a width. *)
SidebarVisible == SidebarWidth # Zero

(* The menu icon is rendered only while isCollapsed. *)
MenuIconRendered == isCollapsed

-----------------------------------------------------------------------------
(* The handlers, as functions of the part of the state they write.        *)
(* st = [isCollapsed, isResetting, sidebarStyle, navbarStyle, timers]      *)

Cur == [isCollapsed |-> isCollapsed, isResetting |-> isResetting,
        sidebarStyle |-> sidebarStyle, navbarStyle |-> navbarStyle,
        timers |-> timers]

(* resetWidth without the isMobile branches: always the desktop widths. *)
resetWidth_desktopOnly(st, mobile) ==
    IF sidebarRef /\ navbarRef
    THEN [isCollapsed |-> FALSE,
          isResetting |-> TRUE,
          sidebarStyle |-> setProperty(st.sidebarStyle, "width",
                              Px(DefaultWidth)),
          navbarStyle |-> setProperty(
                              setProperty(st.navbarStyle, "width",
                                  CalcFullMinusPx(DefaultWidth)),
                              "left", Px(DefaultWidth)),
          timers |-> st.timers + 1]
    ELSE st

(* resetWidth that forgets setIsCollapsed(false). *)
resetWidth_keepsCollapsed(st, mobile) ==
    IF sidebarRef /\ navbarRef
    THEN [isCollapsed |-> st.isCollapsed,
          isResetting |-> TRUE,
          sidebarStyle |-> setProperty(st.sidebarStyle, "width",
                              IF mobile THEN Full ELSE Px(DefaultWidth)),
          navbarStyle |-> setProperty(
                              setProperty(st.navbarStyle, "width",
                                  IF mobile THEN Zero
                                  ELSE CalcFullMinusPx(DefaultWidth)),
                              "left",
                              IF mobile THEN Full ELSE Px(DefaultWidth)),
          timers |-> st.timers + 1]
    ELSE st

resetWidth(st, mobile) ==
    IF sidebarRef /\ navbarRef
    THEN [isCollapsed |-> FALSE,
          isResetting |-> TRUE,
          sidebarStyle |-> setProperty(st.sidebarStyle, "width",
                              IF mobile THEN Full ELSE Px(DefaultWidth)),
          navbarStyle |-> setProperty(
                              setProperty(st.navbarStyle, "width",
                                  IF mobile THEN Zero
                                  ELSE CalcFullMinusPx(DefaultWidth)),
                              "left",
                              IF mobile THEN Full ELSE Px(DefaultWidth)),
          timers |-> st.timers + 1]
    ELSE st

(* collapse that sets the flag but starts no timer. *)
collapse_noTimer(st) ==
    IF sidebarRef /\ navbarRef
    THEN [isCollapsed |-> TRUE,
          isResetting |-> TRUE,
          sidebarStyle |-> setProperty(st.sidebarStyle, "width", Zero),
          navbarStyle |-> setProperty(
                              setProperty(st.navbarStyle, "width", Full),
                              "left", Zero),
          timers |-> st.timers]
    ELSE st

collapse(st) ==
    IF sidebarRef /\ navbarRef
    THEN [isCollapsed |-> TRUE,
          isResetting |-> TRUE,
          sidebarStyle |-> setProperty(st.sidebarStyle, "width", Zero),
          navbarStyle |-> setProperty(
                              setProperty(st.navbarStyle, "width", Full),
                              "left", Zero),
          timers |-> st.timers + 1]
    ELSE st

(* Clamp with the lower bound forgotten. *)
Clamp_noMin(clientX) ==
    IF clientX > MaxWidth THEN MaxWidth ELSE clientX

(* Clamp with the upper bound forgotten. *)
Clamp_noMax(clientX) ==
    IF clientX < MinWidth THEN MinWidth ELSE clientX

Clamp(clientX) ==
    LET w1 == IF clientX < MinWidth THEN MinWidth ELSE clientX
    IN  IF w1 > MaxWidth THEN MaxWidth ELSE w1

(* handleMouseMove that moves the navbar but leaves its width alone. *)
handleMouseMove_noNavbarWidth(st, clientX) ==
    IF ~isResizingRef THEN st
    ELSE LET newWidth == Clamp(clientX)
         IN  IF sidebarRef /\ navbarRef
             THEN [st EXCEPT
                     !.sidebarStyle = setProperty(@, "width", Px(newWidth)),
                     !.navbarStyle = setProperty(@, "left", Px(newWidth))]
             ELSE st

(* handleMouseMove that also switches the transition flag on. *)
handleMouseMove_setsResetting(st, clientX) ==
    IF ~isResizingRef THEN st
    ELSE LET newWidth == Clamp(clientX)
         IN  IF sidebarRef /\ navbarRef
             THEN [st EXCEPT
                     !.isResetting = TRUE,
                     !.sidebarStyle = setProperty(@, "width", Px(newWidth)),
                     !.navbarStyle = setProperty(
                                         setProperty(@, "left", Px(newWidth)),
                                         "width", CalcFullMinusPx(newWidth))]
             ELSE st

handleMouseMove(st, clientX) ==
    IF ~isResizingRef THEN st
    ELSE LET newWidth == Clamp(clientX)
         IN  IF sidebarRef /\ navbarRef
             THEN [st EXCEPT
                     !.sidebarStyle = setProperty(@, "width", Px(newWidth)),
                     !.navbarStyle = setProperty(
                                         setProperty(@, "left", Px(newWidth)),
                                         "width", CalcFullMinusPx(newWidth))]
             ELSE st

(* The [isMobile] effect without its else branch. *)
effectIsMobile_noElse(st, mobile) ==
    IF mobile THEN collapse(st) ELSE st

(* useEffect(..., [isMobile]) *)
effectIsMobile(st, mobile) ==
    IF mobile THEN collapse(st) ELSE resetWidth(st, mobile)

(* The [pathname, isMobile] effect with the isMobile test forgotten. *)
effectPathname_always(st, mobile) ==
    collapse(st)

(* useEffect(..., [pathname, isMobile]) *)
effectPathname(st, mobile) ==
    IF mobile THEN collapse(st) ELSE st

-----------------------------------------------------------------------------
(* Rendering: a render makes new handler closures.  A closure that is not *)
(* registered as a listener is unreachable, so its identity is reused.    *)

FreshId ==
    CHOOSE i \in ClosureIds \ (moveListeners \cup upListeners) :
        \A j \in ClosureIds \ (moveListeners \cup upListeners) : i <= j

Rerendered(st, mobile, path) ==
    \/ st.isCollapsed # isCollapsed
    \/ st.isResetting # isResetting
    \/ mobile # isMobile
    \/ path # pathname

Commit(st, mobile, path, op, x) ==
    /\ isCollapsed' = st.isCollapsed
    /\ isResetting' = st.isResetting
    /\ sidebarStyle' = st.sidebarStyle
    /\ navbarStyle' = st.navbarStyle
    /\ timers' = st.timers
    /\ isMobile' = mobile
    /\ pathname' = path
    /\ render' = IF Rerendered(st, mobile, path) THEN FreshId ELSE render
    /\ lastOp' = op
    /\ lastX' = x

-----------------------------------------------------------------------------
(* Initial state: the first render, before the commit attaches the refs.  *)

Init ==
    /\ isMobile \in BOOLEAN
    /\ pathname \in Pathnames
    /\ isResizingRef = FALSE
    /\ sidebarRef = FALSE
    /\ navbarRef = FALSE
    /\ isResetting = FALSE
    /\ isCollapsed = isMobile
    /\ sidebarStyle = NoStyle
    /\ navbarStyle = NoStyle
    /\ timers = 0
    /\ moveListeners = {}
    /\ upListeners = {}
    /\ render = 0
    /\ phase = "render"
    /\ lastOp = "render"
    /\ lastX = 0

(* The first commit attaches both refs. *)
Attach ==
    /\ phase = "render"
    /\ phase' = "commit"
    /\ sidebarRef' = TRUE
    /\ navbarRef' = TRUE
    /\ lastOp' = "commit"
    /\ UNCHANGED <<isMobile, pathname, isResizingRef, isResetting, isCollapsed,
                   sidebarStyle, navbarStyle, timers, moveListeners,
                   upListeners, render, lastX>>

(* After the first commit both effects run, in order. *)
MountEffects ==
    /\ phase = "commit"
    /\ phase' = "live"
    /\ Commit(effectPathname(effectIsMobile(Cur, isMobile), isMobile),
              isMobile, pathname, "mount", 0)
    /\ UNCHANGED <<isResizingRef, sidebarRef, navbarRef, moveListeners,
                   upListeners>>

(* The media query flips: re-render, then both effects run (isMobile is a *)
(* dependency of each).                                                    *)
ViewportChange ==
    /\ phase = "live"
    /\ timers + 2 <= MaxTimers
    /\ LET mobile == ~isMobile
       IN  Commit(effectPathname(effectIsMobile(Cur, mobile), mobile),
                  mobile, pathname, "viewport", 0)
    /\ UNCHANGED <<isResizingRef, sidebarRef, navbarRef, moveListeners,
                   upListeners, phase>>

(* The route changes: re-render, then the [pathname, isMobile] effect runs. *)
RouteChange(path) ==
    /\ phase = "live"
    /\ path # pathname
    /\ timers + 1 <= MaxTimers
    /\ Commit(effectPathname(Cur, isMobile), isMobile, path, "route", 0)
    /\ UNCHANGED <<isResizingRef, sidebarRef, navbarRef, moveListeners,
                   upListeners, phase>>

(* onClick={collapse} on the chevron button *)
CollapseClick ==
    /\ phase = "live"
    /\ SidebarVisible
    /\ timers + 1 <= MaxTimers
    /\ Commit(collapse(Cur), isMobile, pathname, "collapse", 0)
    /\ UNCHANGED <<isResizingRef, sidebarRef, navbarRef, moveListeners,
                   upListeners, phase>>

(* onClick={resetWidth} on the resize handle, or on the menu icon, which  *)
(* is rendered only while isCollapsed.                                     *)
ResetWidthClick ==
    /\ phase = "live"
    /\ SidebarVisible \/ MenuIconRendered
    /\ timers + 1 <= MaxTimers
    /\ Commit(resetWidth(Cur, isMobile), isMobile, pathname, "resetWidth", 0)
    /\ UNCHANGED <<isResizingRef, sidebarRef, navbarRef, moveListeners,
                   upListeners, phase>>

(* A pending timer fires: setIsResetting(false). *)
TimerFire ==
    /\ timers > 0
    /\ Commit([Cur EXCEPT !.isResetting = FALSE, !.timers = @ - 1],
              isMobile, pathname, "timer", 0)
    /\ UNCHANGED <<isResizingRef, sidebarRef, navbarRef, moveListeners,
                   upListeners, phase>>

(* onMouseDown={handleMouseDown} on the resize handle.  addEventListener  *)
(* ignores a listener that is already registered.                          *)
handleMouseDown ==
    /\ phase = "live"
    /\ SidebarVisible
    /\ \/ render \in moveListeners \cup upListeners
       \/ Cardinality(moveListeners \cup upListeners) < MaxListeners
    /\ isResizingRef' = TRUE
    /\ moveListeners' = moveListeners \cup {render}
    /\ upListeners' = upListeners \cup {render}
    /\ lastOp' = "mousedown"
    /\ lastX' = 0
    /\ UNCHANGED <<isMobile, pathname, sidebarRef, navbarRef, isResetting,
                   isCollapsed, sidebarStyle, navbarStyle, timers, render,
                   phase>>

(* A mousemove handler that is always registered and has no guard. *)
MouseMove_unguarded(clientX) ==
    /\ phase = "live"
    /\ Commit([Cur EXCEPT
                 !.sidebarStyle = setProperty(@, "width", Px(Clamp(clientX))),
                 !.navbarStyle = setProperty(
                                     setProperty(@, "left", Px(Clamp(clientX))),
                                     "width", CalcFullMinusPx(Clamp(clientX)))],
              isMobile, pathname, "mousemove", clientX)
    /\ UNCHANGED <<isResizingRef, sidebarRef, navbarRef, moveListeners,
                   upListeners, phase>>

(* The document receives a mousemove: every registered closure of         *)
(* handleMouseMove runs with the event; the closures differ in identity   *)
(* only, and a second run with the same clientX writes the same values.   *)
MouseMove(clientX) ==
    /\ phase = "live"
    /\ Commit(IF moveListeners # {} THEN handleMouseMove(Cur, clientX)
              ELSE Cur,
              isMobile, pathname, "mousemove", clientX)
    /\ UNCHANGED <<isResizingRef, sidebarRef, navbarRef, moveListeners,
                   upListeners, phase>>

(* handleMouseUp that forgets to unregister handleMouseMove. *)
handleMouseUp_keepsMove(id, ls) ==
    [isResizing |-> FALSE,
     move |-> ls.move,
     up |-> ls.up \ {id}]

(* One closure of handleMouseUp: it unregisters itself and the            *)
(* handleMouseMove of its own render.                                      *)
handleMouseUp(id, ls) ==
    [isResizing |-> FALSE,
     move |-> ls.move \ {id},
     up |-> ls.up \ {id}]

RECURSIVE RunUpListeners(_, _)
RunUpListeners(ids, ls) ==
    IF ids = {} THEN ls
    ELSE LET id == CHOOSE i \in ids : \A j \in ids : i <= j
         IN  RunUpListeners(ids \ {id},
                 IF id \in ls.up THEN handleMouseUp(id, ls) ELSE ls)

(* The document receives a mouseup: every closure registered when the     *)
(* dispatch starts runs, unless an earlier one removed it.                 *)
MouseUp ==
    /\ phase = "live"
    /\ LET ls == RunUpListeners(upListeners,
                     [isResizing |-> isResizingRef, move |-> moveListeners,
                      up |-> upListeners])
       IN  /\ isResizingRef' = ls.isResizing
           /\ moveListeners' = ls.move
           /\ upListeners' = ls.up
    /\ lastOp' = "mouseup"
    /\ lastX' = 0
    /\ UNCHANGED <<isMobile, pathname, sidebarRef, navbarRef, isResetting,
                   isCollapsed, sidebarStyle, navbarStyle, timers, render,
                   phase>>

Next ==
    \/ Attach
    \/ MountEffects
    \/ ViewportChange
    \/ \E path \in Pathnames : RouteChange(path)
    \/ CollapseClick
    \/ ResetWidthClick
    \/ TimerFire
    \/ handleMouseDown
    \/ \E clientX \in ClientXs : MouseMove(clientX)
    \/ MouseUp

Spec == Init /\ [][Next]_vars

(* Timers always fire: the event loop runs every pending timeout. *)
FairSpec == Spec /\ WF_vars(TimerFire)

TypeOK ==
    /\ isMobile \in BOOLEAN
    /\ pathname \in Pathnames
    /\ isResizingRef \in BOOLEAN
    /\ isResetting \in BOOLEAN
    /\ isCollapsed \in BOOLEAN
    /\ timers \in 0..MaxTimers
    /\ moveListeners \subseteq ClosureIds
    /\ upListeners \subseteq ClosureIds
    /\ render \in ClosureIds

-----------------------------------------------------------------------------
(* Properties *)

Mounted == sidebarRef /\ navbarRef

(* C1: a mousemove during a drag, with both elements mounted, leaves the  *)
(* sidebar width at clientX clamped to [240, 480].                         *)
C1_DragClamps ==
    (lastOp = "mousemove" /\ isResizingRef /\ Mounted) =>
        SidebarWidth = Px(IF lastX < 240 THEN 240
                          ELSE IF lastX > 480 THEN 480 ELSE lastX)

C1_Witness ==
    lastOp = "mousemove" /\ isResizingRef /\ lastX < 240
        /\ SidebarWidth = Px(240)

(* C2, as stated: collapse sets the sidebar width to 0 and the resetWidth *)
(* that follows it sets the width to 240.                                  *)
C2_Original ==
    [][/\ lastOp' = "collapse" => SidebarWidth' = Zero
       /\ (lastOp = "collapse" /\ lastOp' = "resetWidth") =>
              SidebarWidth' = Px(240)]_vars

(* C2, amended: collapse sets the sidebar width to 0 and the resetWidth   *)
(* that follows it sets the width to 240 on a desktop viewport and to     *)
(* 100% on a mobile viewport.                                              *)
C2_CollapseExpand ==
    [][/\ lastOp' = "collapse" => SidebarWidth' = Zero
       /\ (lastOp = "collapse" /\ lastOp' = "resetWidth") =>
              SidebarWidth' = IF isMobile' THEN Full ELSE Px(240)]_vars

C2_Witness ==
    lastOp = "resetWidth" /\ isMobile /\ ~isCollapsed /\ SidebarWidth = Full

(* C3, as stated: the sidebar width is always a pixel width in [240, 480]. *)
C3_Original ==
    SidebarWidth.pct = 0 /\ SidebarWidth.px >= 240 /\ SidebarWidth.px <= 480

(* C3, amended: the sidebar width is always 0, 100%, or a pixel width in  *)
(* [240, 480].                                                             *)
C3_WidthRange ==
    \/ SidebarWidth = Zero
    \/ SidebarWidth = Full
    \/ SidebarWidth.pct = 0 /\ SidebarWidth.px >= 240 /\ SidebarWidth.px <= 480

C3_Witness ==
    lastOp = "mousemove" /\ isResizingRef /\ lastX > 480
        /\ SidebarWidth = Px(480)

(* C4: the navbar's left offset equals the sidebar width and the navbar's *)
(* width is 100% minus the sidebar width, in every state.                  *)
C4_Mirror ==
    /\ NavbarLeft = SidebarWidth
    /\ NavbarWidth = [pct |-> 100 - SidebarWidth.pct,
                      px |-> 0 - SidebarWidth.px]

C4_Witness ==
    lastOp = "mousemove" /\ SidebarWidth = Px(360) /\ NavbarLeft = Px(360)
        /\ NavbarWidth = CalcFullMinusPx(360)

(* C5: a mousemove listener and a mouseup listener are registered exactly *)
(* while isResizing is true; mousedown registers the closures of the      *)
(* current render and mouseup leaves none registered.                      *)
C5_ListenersIffResizing ==
    /\ (moveListeners # {}) <=> isResizingRef
    /\ (upListeners # {}) <=> isResizingRef
    /\ lastOp = "mousedown" =>
           isResizingRef /\ render \in moveListeners /\ render \in upListeners
    /\ lastOp = "mouseup" =>
           ~isResizingRef /\ moveListeners = {} /\ upListeners = {}

C5_Witness ==
    lastOp = "mousedown" /\ Cardinality(moveListeners) = 2
        /\ Cardinality(upListeners) = 2

(* C6: every collapse or resetWidth sets isResetting; isResetting turns   *)
(* true only by such an operation; it is false whenever no timer is       *)
(* pending; and whenever it is true it becomes false again.                *)
C6_ResettingClears ==
    /\ [](lastOp \in {"collapse", "resetWidth", "mount", "viewport"} =>
              isResetting)
    /\ []((lastOp = "route" /\ isMobile) => isResetting)
    /\ [](timers = 0 => ~isResetting)
    /\ [][(~isResetting /\ isResetting') =>
              lastOp' \in {"collapse", "resetWidth", "mount", "viewport",
                           "route"}]_vars
    /\ (isResetting ~> ~isResetting)

C6_Witness ==
    lastOp = "timer" /\ timers = 0 /\ ~isResetting /\ phase = "live"

(* C7: after a viewport change to mobile the sidebar is collapsed (width  *)
(* 0, navbar left 0 and width 100%); after a change to desktop it is      *)
(* expanded at width 240.                                                  *)
C7_Responsive ==
    lastOp = "viewport" =>
        IF isMobile
        THEN isCollapsed /\ SidebarWidth = Zero /\ NavbarLeft = Zero
                 /\ NavbarWidth = Full
        ELSE ~isCollapsed /\ SidebarWidth = Px(240)

C7_Witness ==
    lastOp = "viewport" /\ ~isMobile /\ isResizingRef /\ ~isCollapsed
        /\ SidebarWidth = Px(240)

(* C8: isCollapsed is true exactly when the sidebar width is 0.            *)
C8_CollapsedIffZero ==
    isCollapsed <=> (SidebarWidth = Zero)

(* C9: isResetting is true while a timer of collapse or resetWidth is     *)
(* pending.                                                                *)
C9_ResettingWhilePending ==
    timers > 0 => isResetting

(* C10: a mousemove that arrives while isResizing is false changes none   *)
(* of sidebar width, navbar left, navbar width, isCollapsed, isResetting.  *)
C10_IdleMoveNoEffect ==
    [][(lastOp' = "mousemove" /\ ~isResizingRef) =>
           /\ SidebarWidth' = SidebarWidth
           /\ NavbarLeft' = NavbarLeft
           /\ NavbarWidth' = NavbarWidth
           /\ isCollapsed' = isCollapsed
           /\ isResetting' = isResetting]_vars

C10_Witness ==
    lastOp = "mousemove" /\ ~isResizingRef /\ lastX = 360
        /\ SidebarWidth = Px(240)

(* C11: on a mobile viewport a route change leaves the sidebar collapsed  *)
(* (isCollapsed true, width 0); on a desktop viewport it leaves the       *)
(* sidebar state as it was.                                                *)
C11_RouteChange ==
    [][lastOp' = "route" =>
           IF isMobile'
           THEN isCollapsed' /\ SidebarWidth' = Zero
           ELSE /\ isCollapsed' = isCollapsed
                /\ isResetting' = isResetting
                /\ timers' = timers
                /\ SidebarWidth' = SidebarWidth
                /\ NavbarLeft' = NavbarLeft
                /\ NavbarWidth' = NavbarWidth]_vars

C11_Witness ==
    lastOp = "route" /\ isMobile /\ isCollapsed /\ SidebarWidth = Zero
        /\ NavbarWidth = Full

(* C12: resetWidth sets sidebar width 240, navbar left 240 and navbar     *)
(* width 100% - 240 on desktop; sidebar width 100%, navbar left 100% and  *)
(* navbar width 0 on mobile; isCollapsed is false afterwards.              *)
C12_ResetWidth ==
    lastOp = "resetWidth" =>
        /\ ~isCollapsed
        /\ IF isMobile
           THEN /\ SidebarWidth = [pct |-> 100, px |-> 0]
                /\ NavbarLeft = [pct |-> 100, px |-> 0]
                /\ NavbarWidth = [pct |-> 0, px |-> 0]
           ELSE /\ SidebarWidth = [pct |-> 0, px |-> 240]
                /\ NavbarLeft = [pct |-> 0, px |-> 240]
                /\ NavbarWidth = [pct |-> 100, px |-> 0 - 240]

C12_Witness ==
    lastOp = "resetWidth" /\ ~isMobile /\ isResizingRef /\ ~isCollapsed
        /\ SidebarWidth = Px(240) /\ NavbarWidth = CalcFullMinusPx(240)

(* C13: mousedown and mouseup leave sidebar width, navbar left and navbar *)
(* width as they were; mousedown, mousemove and mouseup leave isCollapsed, *)
(* isResetting and the pending timers as they were.                        *)
C13_DragFrame ==
    [][/\ lastOp' \in {"mousedown", "mouseup"} =>
              /\ SidebarWidth' = SidebarWidth
              /\ NavbarLeft' = NavbarLeft
              /\ NavbarWidth' = NavbarWidth
       /\ lastOp' \in {"mousedown", "mousemove", "mouseup"} =>
              /\ isCollapsed' = isCollapsed
              /\ isResetting' = isResetting
              /\ timers' = timers]_vars

C13_Witness ==
    lastOp = "mouseup" /\ ~isResizingRef /\ SidebarWidth = Px(360)
        /\ NavbarLeft = Px(360)

====
